---- MODULE Spec2Model ----
(***************************************************************************)
(* Model of the Sensors registry of senso_py in its six shipped variants:  *)
(*   sensors.py, sensors_exp.py, sensors_builder.py (parameter packs),     *)
(*   sensors_consolidated.py (builder over parameter packs),               *)
(*   sensors_builder_json.py, sensors_builder_validatedjson.py (JSON).     *)
(* `variant` says which file's classes the registry is built from.         *)
(***************************************************************************)
EXTENDS Integers, Sequences, FiniteSets, TLC

VARIABLES variant, sensors, last, gen, registries, threads

vars == <<variant, sensors, last, gen, registries, threads>>

(***************************************************************************)
(* Program constants.                                                      *)
(***************************************************************************)
MAX_BAUD_RATE == 921400
MIN_BAUD_RATE == 2400
MAX_CS_VAL == 7
MAX_I2C_ADDR == 127

(***************************************************************************)
(* Bounds of the model.                                                    *)
(***************************************************************************)
MaxSensors == 2
MaxRegistries == 2
MaxThreads == 2

(***************************************************************************)
(* Python values that are not integers, in integer-typed slots.            *)
(***************************************************************************)
PyNone == -999          \* None
NoAttr == PyNone + 2     \* the object has no such attribute

Variants == {"sensors", "exp", "builder", "consolidated", "json", "vjson"}
PPackVariants == {"sensors", "exp", "builder", "consolidated"}
JsonVariants == {"json", "vjson"}
ValidatedVariants == {"exp", "builder", "consolidated", "json", "vjson"}
RangeCheckedVariants == {"sensors", "exp", "builder"}
BuilderPatternVariants == {"consolidated", "json", "vjson"}

Kinds == {"i2c", "spi", "uart"}


(***************************************************************************)
(* Inputs.  A parameter pack is the tuple (type, bus_no, field, dev_name,  *)
(* alias); the field is i2c_addr, cs_no or baud_rate by type.  The values  *)
(* sit on both sides of every range limit of the code.                     *)
(***************************************************************************)
Types == Kinds \cup {"can"}
Buses == {1, 2}
Aliases == {"A1", "A2"}
DevNames == {"dev"}

FieldValues(type) ==
    CASE type = "i2c"  -> {-1, 0, MAX_I2C_ADDR, MAX_I2C_ADDR + 1}
      [] type = "spi"  -> {-1, 0, MAX_CS_VAL, MAX_CS_VAL + 1}
      [] type = "uart" -> {MIN_BAUD_RATE - 1, MIN_BAUD_RATE, MAX_BAUD_RATE, MAX_BAUD_RATE + 1}
      [] OTHER         -> {0}

KeyValues(type) ==
    CASE type = "i2c"  -> {0, MAX_I2C_ADDR}
      [] type = "spi"  -> {0, MAX_CS_VAL}
      [] type = "uart" -> {MIN_BAUD_RATE, MAX_BAUD_RATE}
      [] OTHER         -> {0}

Least(S) == CHOOSE i \in S : \A j \in S : i <= j

AllFieldValues == UNION {FieldValues(t) : t \in Types}

\* every field value on bus 1, one in-range value on bus 2 as well, and a
\* second alias for one in-range sensor of each kind
PPacks ==
    {p \in Types \X Buses \X AllFieldValues \X DevNames \X Aliases :
        /\ p[3] \in FieldValues(p[1])
        /\ p[2] = 2 => p[3] = Least(KeyValues(p[1]))
        /\ p[5] = "A2" => p[2] = 1 /\ p[3] = Least(KeyValues(p[1])) /\ p[1] \in Kinds}

(***************************************************************************)
(* Objects.  A sensor is [cls, base, dev]: cls is its Python class, base   *)
(* holds the attributes SensorBase / ExternalSensorBase sets, dev the      *)
(* attributes the bus-specific class sets.                                  *)
(***************************************************************************)
NoSensor == [cls |-> "none"]

Raised(exc, cfg) == [exc |-> exc, obj |-> NoSensor, configured |-> cfg]
Built(obj, cfg) == [exc |-> "", obj |-> obj, configured |-> cfg]

\* `if dev_name: ... else: "none"` of the base classes
OrNone(s) == IF s \in {"", "<None>"} THEN "none" ELSE s

HasAttr(obj, name) == name \in DOMAIN obj.dev
Attr(obj, name) == IF HasAttr(obj, name) THEN obj.dev[name] ELSE NoAttr


(***************************************************************************)
(* Drivers.  A configure function returns "" or the exception it raises.   *)
(***************************************************************************)
\* sensor_drivers/mocked_sensor_driver.py (sensors_builder.py imports it)
mocked_configure_i2c_sensor(bus_no, i2c_addr) == ""

\* the body reads cs_num, a name that is bound nowhere
mocked_configure_spi_sensor(bus_no, cs_no) ==
    IF bus_no = PyNone THEN "" ELSE "NameError"

\* sensor_drivers/sensor_driver.py (the JSON variants import it): "%d" % None
driver_configure_i2c_sensor(bus_no, addr) ==
    IF bus_no = PyNone \/ addr = PyNone THEN "TypeError" ELSE ""

driver_configure_spi_sensor(bus_no, cs_num) ==
    IF bus_no = PyNone \/ cs_num = PyNone THEN "TypeError" ELSE ""

\* sensors_consolidated.py defines its own, printing with %s
consolidated_configure_i2c_sensor(bus_no, i2c_addr) == ""

consolidated_configure_spi_sensor(bus_no, cs_no) == ""

(***************************************************************************)
(* Base classes.                                                           *)
(***************************************************************************)
bus_property1 ==
    [i2c |-> "bus-address", spi |-> "ChipSelect-number", uart |-> "baud_rate"]

\* sensors.py
sensors_SensorBase(bus_no, dev_name, alias, read) ==
    [read |-> read, bus_no |-> bus_no,
     dev_name |-> OrNone(dev_name), alias |-> OrNone(alias)]

\* sensors_exp.py
exp_SensorBase(type_name, bus_no, dev_name, alias, read) ==
    [read |-> read, type_name |-> type_name, bus_no |-> bus_no,
     dev_name |-> OrNone(dev_name), alias |-> OrNone(alias),
     bus_prop1 |-> bus_property1[type_name]]

\* sensors_builder.py, sensors_consolidated.py and the JSON variants
ExternalSensorBase(type_name, bus_no, dev_name, alias, config, read) ==
    [config |-> config, read |-> read, type_name |-> type_name, bus_no |-> bus_no,
     dev_name |-> OrNone(dev_name), alias |-> OrNone(alias),
     bus_prop1 |-> bus_property1[type_name]]

(***************************************************************************)
(* sensors.py: the classes take the pack without its type tag.             *)
(***************************************************************************)
sensors_I2cSensor(ppack) ==
    LET bus_no == ppack[1]  i2c_addr == ppack[2]  dev_name == ppack[3]  alias == ppack[4] IN
    IF i2c_addr < 0 \/ i2c_addr > MAX_I2C_ADDR THEN Raised("ValueError", <<>>)
    ELSE Built([cls |-> "i2c", dev |-> [i2c_addr |-> i2c_addr],
                base |-> sensors_SensorBase(bus_no, dev_name, alias, "get_i2c_val")], <<>>)

sensors_SpiSensor(ppack) ==
    LET bus_no == ppack[1]  cs_no == ppack[2]  dev_name == ppack[3]  alias == ppack[4] IN
    IF cs_no < 0 \/ cs_no > MAX_CS_VAL THEN Raised("ValueError", <<>>)
    ELSE Built([cls |-> "spi", dev |-> [cs_no |-> cs_no],
                base |-> sensors_SensorBase(bus_no, dev_name, alias, "get_spi_val")], <<>>)

sensors_UartSensor(ppack) ==
    LET bus_no == ppack[1]  baud_rate == ppack[2]  dev_name == ppack[3]  alias == ppack[4] IN
    IF baud_rate < MIN_BAUD_RATE \/ baud_rate > MAX_BAUD_RATE THEN Raised("ValueError", <<>>)
    ELSE Built([cls |-> "uart", dev |-> [baud_rate |-> baud_rate],
                base |-> sensors_SensorBase(bus_no, dev_name, alias, "get_uart_val")], <<>>)

(***************************************************************************)
(* sensors_exp.py: the classes take the whole pack.                        *)
(***************************************************************************)
exp_I2cSensor(ppack) ==
    LET type_name == ppack[1]  bus_no == ppack[2]  i2c_addr == ppack[3]
        dev_name == ppack[4]  alias == ppack[5] IN
    IF i2c_addr < 0 \/ i2c_addr > MAX_I2C_ADDR THEN Raised("ValueError", <<>>)
    ELSE Built([cls |-> "i2c", dev |-> [i2c_addr |-> i2c_addr],
                base |-> exp_SensorBase(type_name, bus_no, dev_name, alias, "get_i2c_val")], <<>>)

exp_SpiSensor(ppack) ==
    LET type_name == ppack[1]  bus_no == ppack[2]  cs_no == ppack[3]
        dev_name == ppack[4]  alias == ppack[5] IN
    IF cs_no < 0 \/ cs_no > MAX_CS_VAL THEN Raised("ValueError", <<>>)
    ELSE Built([cls |-> "spi", dev |-> [cs_no |-> cs_no],
                base |-> exp_SensorBase(type_name, bus_no, dev_name, alias, "get_spi_val")], <<>>)

exp_UartSensor(ppack) ==
    LET type_name == ppack[1]  bus_no == ppack[2]  baud_rate == ppack[3]
        dev_name == ppack[4]  alias == ppack[5] IN
    IF baud_rate < MIN_BAUD_RATE \/ baud_rate > MAX_BAUD_RATE THEN Raised("ValueError", <<>>)
    ELSE Built([cls |-> "uart", dev |-> [baud_rate |-> baud_rate],
                base |-> exp_SensorBase(type_name, bus_no, dev_name, alias, "get_uart_val")], <<>>)

(***************************************************************************)
(* sensors_builder.py: the class owns a base object and configures the     *)
(* device through the mocked driver.  `configured` lists the configure     *)
(* calls made, as <<function, bus_no, argument>>.                          *)
(***************************************************************************)
\* mutant: the constructor leaves the device unconfigured
builder_I2cSensor_unconfigured(ppack) ==
    LET type_name == ppack[1]  bus_no == ppack[2]  i2c_addr == ppack[3]
        dev_name == ppack[4]  alias == ppack[5]
        base == ExternalSensorBase(type_name, bus_no, dev_name, alias,
                                   "configure_i2c_sensor", "get_i2c_val") IN
    IF i2c_addr < 0 \/ i2c_addr > MAX_I2C_ADDR THEN Raised("ValueError", <<>>)
    ELSE Built([cls |-> "i2c", dev |-> [i2c_addr |-> i2c_addr], base |-> base], <<>>)

builder_I2cSensor(ppack) ==
    LET type_name == ppack[1]  bus_no == ppack[2]  i2c_addr == ppack[3]
        dev_name == ppack[4]  alias == ppack[5]
        base == ExternalSensorBase(type_name, bus_no, dev_name, alias,
                                   "configure_i2c_sensor", "get_i2c_val")
        call == <<"configure_i2c_sensor", base.bus_no, i2c_addr>>
        exc == mocked_configure_i2c_sensor(base.bus_no, i2c_addr) IN
    IF i2c_addr < 0 \/ i2c_addr > MAX_I2C_ADDR THEN Raised("ValueError", <<>>)
    ELSE IF exc # "" THEN Raised(exc, <<call>>)
    ELSE Built([cls |-> "i2c", dev |-> [i2c_addr |-> i2c_addr], base |-> base], <<call>>)

builder_SpiSensor(ppack) ==
    LET type_name == ppack[1]  bus_no == ppack[2]  cs_no == ppack[3]
        dev_name == ppack[4]  alias == ppack[5]
        base == ExternalSensorBase(type_name, bus_no, dev_name, alias,
                                   "configure_spi_sensor", "get_spi_val")
        call == <<"configure_spi_sensor", base.bus_no, cs_no>>
        exc == mocked_configure_spi_sensor(base.bus_no, cs_no) IN
    IF cs_no < 0 \/ cs_no > MAX_CS_VAL THEN Raised("ValueError", <<>>)
    ELSE IF exc # "" THEN Raised(exc, <<call>>)
    ELSE Built([cls |-> "spi", dev |-> [cs_no |-> cs_no], base |-> base], <<call>>)

\* no config function is passed to the base: nothing is configured
builder_UartSensor(ppack) ==
    LET type_name == ppack[1]  bus_no == ppack[2]  baud_rate == ppack[3]
        dev_name == ppack[4]  alias == ppack[5]
        base == ExternalSensorBase(type_name, bus_no, dev_name, alias,
                                   "None", "get_uart_val") IN
    IF baud_rate < MIN_BAUD_RATE \/ baud_rate > MAX_BAUD_RATE THEN Raised("ValueError", <<>>)
    ELSE Built([cls |-> "uart", dev |-> [baud_rate |-> baud_rate], base |-> base], <<>>)


(***************************************************************************)
(* sensors_consolidated.py: the class builds an empty object (configuring  *)
(* it at once, with bus_no and the field still None); SensorBuilder then   *)
(* sets the fields one by one.                                              *)
(***************************************************************************)
consolidated_I2cSensor ==
    LET base == ExternalSensorBase("i2c", PyNone, "<None>", "<None>",
                                   "configure_i2c_sensor", "get_i2c_val")
        call == <<"configure_i2c_sensor", base.bus_no, PyNone>>
        exc == consolidated_configure_i2c_sensor(base.bus_no, PyNone) IN
    IF exc # "" THEN Raised(exc, <<call>>)
    ELSE Built([cls |-> "i2c", dev |-> [type_name |-> "i2c", i2c_addr |-> PyNone],
                base |-> base], <<call>>)

consolidated_SpiSensor ==
    LET base == ExternalSensorBase("spi", PyNone, "<None>", "<None>",
                                   "configure_spi_sensor", "get_spi_val")
        call == <<"configure_spi_sensor", base.bus_no, PyNone>>
        exc == consolidated_configure_spi_sensor(base.bus_no, PyNone) IN
    IF exc # "" THEN Raised(exc, <<call>>)
    ELSE Built([cls |-> "spi", dev |-> [type_name |-> "spi", cs_no |-> PyNone],
                base |-> base], <<call>>)

consolidated_UartSensor ==
    LET base == ExternalSensorBase("uart", PyNone, "<None>", "<None>",
                                   "None", "get_uart_val") IN
    Built([cls |-> "uart",
           dev |-> [type_name |-> "uart", bus_no |-> PyNone, baud_rate |-> PyNone],
           base |-> base], <<>>)

\* a field of the base is set on the base, else a declared field of the
\* sensor on the sensor, else nothing is set
consolidated_with_field(obj, field_name, field_value) ==
    IF field_name \notin DOMAIN obj.base
    THEN IF field_name \notin DOMAIN obj.dev
         THEN obj
         ELSE [obj EXCEPT !.dev[field_name] = field_value]
    ELSE [obj EXCEPT !.base[field_name] = field_value]

uart_prop_list == <<"bus_no", "baud_rate", "dev_name", "alias">>
spi_prop_list == <<"bus_no", "cs_no", "dev_name", "alias">>
i2c_prop_list == <<"bus_no", "i2c_addr", "dev_name", "alias">>

RECURSIVE consolidated_build_loop(_, _, _, _)
consolidated_build_loop(obj, prop_list, ppack, idx) ==
    IF idx > Len(prop_list) THEN obj
    ELSE consolidated_build_loop(
             consolidated_with_field(obj, prop_list[idx], ppack[idx]),
             prop_list, ppack, idx + 1)

\* ppack is the pack without its type tag
consolidated_build_sensor(sensor_clsname, ppack) ==
    LET raw == CASE sensor_clsname = "i2c" -> consolidated_I2cSensor
                 [] sensor_clsname = "spi" -> consolidated_SpiSensor
                 [] sensor_clsname = "uart" -> consolidated_UartSensor
        prop_list == CASE raw.obj.dev.type_name = "uart" -> uart_prop_list
                       [] raw.obj.dev.type_name = "spi" -> spi_prop_list
                       [] raw.obj.dev.type_name = "i2c" -> i2c_prop_list IN
    IF raw.exc # "" THEN raw
    ELSE IF Len(ppack) < Len(prop_list) THEN Raised("IndexError", raw.configured)
    ELSE Built(consolidated_build_loop(raw.obj, prop_list, ppack, 1), raw.configured)

(***************************************************************************)
(* sensors_builder_json.py and sensors_builder_validatedjson.py: the same  *)
(* classes, configured through sensor_drivers/sensor_driver.py.            *)
(***************************************************************************)
json_I2cSensor ==
    LET base == ExternalSensorBase("i2c", PyNone, "<None>", "<None>",
                                   "configure_i2c_sensor", "get_i2c_val")
        call == <<"configure_i2c_sensor", base.bus_no, PyNone>>
        exc == driver_configure_i2c_sensor(base.bus_no, PyNone) IN
    IF exc # "" THEN Raised(exc, <<call>>)
    ELSE Built([cls |-> "i2c", dev |-> [type_name |-> "i2c", i2c_addr |-> PyNone],
                base |-> base], <<call>>)

json_SpiSensor ==
    LET base == ExternalSensorBase("spi", PyNone, "<None>", "<None>",
                                   "configure_spi_sensor", "get_spi_val")
        call == <<"configure_spi_sensor", base.bus_no, PyNone>>
        exc == driver_configure_spi_sensor(base.bus_no, PyNone) IN
    IF exc # "" THEN Raised(exc, <<call>>)
    ELSE Built([cls |-> "spi", dev |-> [type_name |-> "spi", cs_no |-> PyNone],
                base |-> base], <<call>>)

json_UartSensor ==
    LET base == ExternalSensorBase("uart", PyNone, "<None>", "<None>",
                                   "None", "get_uart_val") IN
    Built([cls |-> "uart",
           dev |-> [type_name |-> "uart", bus_no |-> PyNone, baud_rate |-> PyNone],
           base |-> base], <<>>)

\* mutant: a field that neither the base nor the sensor declares is dropped
json_with_field_declared(obj, field_name, field_value) ==
    IF field_name \notin DOMAIN obj.base
    THEN IF field_name \notin DOMAIN obj.dev
         THEN obj
         ELSE [obj EXCEPT !.dev[field_name] = field_value]
    ELSE [obj EXCEPT !.base[field_name] = field_value]

\* a field of the base is set on the base, any other field on the sensor,
\* declared or not
json_with_field(obj, field_name, field_value) ==
    IF field_name \notin DOMAIN obj.base
    THEN [obj EXCEPT !.dev = (field_name :> field_value) @@ obj.dev]
    ELSE [obj EXCEPT !.base[field_name] = field_value]

RECURSIVE json_build_loop(_, _, _)
json_build_loop(obj, props, names) ==
    IF names = {} THEN obj
    ELSE LET n == CHOOSE x \in names : TRUE IN
         json_build_loop(json_with_field(obj, n, props[n]), props, names \ {n})

\* props is the parsed JSON object
json_build_sensor(sensor_clsname, props) ==
    LET raw == CASE sensor_clsname = "i2c" -> json_I2cSensor
                 [] sensor_clsname = "spi" -> json_SpiSensor
                 [] sensor_clsname = "uart" -> json_UartSensor
        names == DOMAIN props \ {"sensor_type"} IN
    IF raw.exc # "" THEN raw
    ELSE IF names = {} THEN Raised("UnboundLocalError", raw.configured)
    ELSE Built(json_build_loop(raw.obj, props, names), raw.configured)


(***************************************************************************)
(* JSON inputs.  A well-formed text is modelled by the object it parses    *)
(* to, a function from property names to values; Malformed stands for a    *)
(* text json.loads rejects.  PyStr is a string where a number is expected, *)
(* "<int>" a number where a string is expected.                            *)
(***************************************************************************)
PyStr == PyNone + 1

FieldName(type) ==
    CASE type = "i2c"  -> "i2c_addr"
      [] type = "spi"  -> "cs_no"
      [] type = "uart" -> "baud_rate"
      [] OTHER         -> "i2c_addr"

JsonOf(p) ==
    ("sensor_type" :> p[1]) @@ ("bus_no" :> p[2]) @@ (FieldName(p[1]) :> p[3])
        @@ ("dev_name" :> p[4]) @@ ("alias" :> p[5])

Without(props, name) == [n \in DOMAIN props \ {name} |-> props[n]]

Malformed == [malformed |-> TRUE]

\* the packs whose JSON form is also tried with a property missing or mistyped
SchemaPacks == {p \in PPacks : p[1] \in Kinds /\ p[2] = 1 /\ p[5] = "A1"
                               /\ p[3] = Least(KeyValues(p[1]) \ {0})}

JsonSpecs ==
    {JsonOf(p) : p \in PPacks}
    \cup {Without(JsonOf(p), n) : p \in SchemaPacks, n \in {"sensor_type", "bus_no", "dev_name"}}
    \cup {Without(JsonOf(p), FieldName(p[1])) : p \in SchemaPacks}
    \cup {[JsonOf(p) EXCEPT !["bus_no"] = PyStr] : p \in SchemaPacks}
    \cup {[JsonOf(p) EXCEPT ![FieldName(p[1])] = PyStr] : p \in SchemaPacks}
    \cup {[JsonOf(p) EXCEPT !["dev_name"] = "<int>"] : p \in SchemaPacks}
    \cup {[JsonOf(p) EXCEPT !["sensor_type"] = "<int>"] : p \in SchemaPacks}
    \cup {Malformed}

\* json.loads: "" and the parsed object, or the exception
json_loads(json_spec) ==
    IF "malformed" \in DOMAIN json_spec
    THEN [exc |-> "JSONDecodeError", value |-> json_spec]
    ELSE [exc |-> "", value |-> json_spec]

IsJsonInteger(v) == v \notin {PyStr, PyNone}
IsJsonString(v) == v \notin {"<int>", "<None>"}

sensor_base_schema ==
    [required |-> {"sensor_type", "bus_no", "dev_name"},
     strings |-> {"sensor_type", "dev_name"}, integers |-> {"bus_no"}]
sensor_i2c_schema == [required |-> {"i2c_addr"}, strings |-> {}, integers |-> {"i2c_addr"}]
sensor_spi_schema == [required |-> {"cs_no"}, strings |-> {}, integers |-> {"cs_no"}]
sensor_uart_schema == [required |-> {"baud_rate"}, strings |-> {}, integers |-> {"baud_rate"}]

json_dev_schemas ==
    [i2c |-> sensor_i2c_schema, spi |-> sensor_spi_schema, uart |-> sensor_uart_schema]

\* mutant: only the required list is checked, not the types
JsonValidator_check_required(schema, json_input) ==
    schema.required \subseteq DOMAIN json_input

\* JsonValidator.check: the Draft-4 validation of required and typed properties
JsonValidator_check(schema, json_input) ==
    /\ schema.required \subseteq DOMAIN json_input
    /\ \A n \in schema.strings \cap DOMAIN json_input : IsJsonString(json_input[n])
    /\ \A n \in schema.integers \cap DOMAIN json_input : IsJsonInteger(json_input[n])

(***************************************************************************)
(* The registry's queries and validators (the same text in every variant   *)
(* that has them, up to `sensor.bus_no` / `sensor.base.bus_no`).           *)
(***************************************************************************)
\* mutant: the filter tests the upper-case tag, which no sensor carries
get_i2c_sensors_upper(regs) == SelectSeq(regs, LAMBDA s : s.base.type_name = "I2C")

get_i2c_sensors(regs) == SelectSeq(regs, LAMBDA s : s.base.type_name = "i2c")
get_spi_sensors(regs) == SelectSeq(regs, LAMBDA s : s.base.type_name = "spi")

\* mutant: the filter lets every sensor through
get_uart_sensors_unfiltered(regs) == SelectSeq(regs, LAMBDA s : TRUE)

get_uart_sensors(regs) == SelectSeq(regs, LAMBDA s : s.base.type_name = "uart")

\* the three queries, by the kind they are named after
get_kind_sensors(kind, regs) ==
    CASE kind = "i2c"  -> get_i2c_sensors(regs)
      [] kind = "spi"  -> get_spi_sensors(regs)
      [] kind = "uart" -> get_uart_sensors(regs)

\* mutant: an address is taken only on the bus of the sensor that holds it
i2c_validate_per_bus(sensor, regs) ==
    LET i2c_sensors == get_i2c_sensors(regs) IN
    IF \E i \in 1..Len(i2c_sensors) :
          /\ sensor.base.bus_no = i2c_sensors[i].base.bus_no
          /\ Attr(sensor, "i2c_addr") = Attr(i2c_sensors[i], "i2c_addr")
    THEN "False" ELSE "True"

\* "True", "False", or the exception the loop raises at its first stop
i2c_validate(sensor, regs) ==
    LET i2c_sensors == get_i2c_sensors(regs)
        bad(i) == ~HasAttr(sensor, "i2c_addr") \/ ~HasAttr(i2c_sensors[i], "i2c_addr")
        hit(i) == Attr(sensor, "i2c_addr") = Attr(i2c_sensors[i], "i2c_addr")
        stops == {i \in 1..Len(i2c_sensors) : bad(i) \/ hit(i)} IN
    IF stops = {} THEN "True"
    ELSE IF bad(Least(stops)) THEN "AttributeError" ELSE "False"

\* mutant: the bus number is compared with the other sensor's chip-select
spi_validate_bus_vs_cs(sensor, regs) ==
    LET spi_sensors == get_spi_sensors(regs) IN
    IF \E i \in 1..Len(spi_sensors) :
          /\ sensor.base.bus_no = Attr(spi_sensors[i], "cs_no")
          /\ Attr(sensor, "cs_no") = Attr(spi_sensors[i], "cs_no")
    THEN "False" ELSE "True"

spi_validate(sensor, regs) ==
    LET spi_sensors == get_spi_sensors(regs)
        same_bus(i) == sensor.base.bus_no = spi_sensors[i].base.bus_no
        bad(i) == same_bus(i) /\ (~HasAttr(sensor, "cs_no") \/ ~HasAttr(spi_sensors[i], "cs_no"))
        hit(i) == same_bus(i) /\ Attr(sensor, "cs_no") = Attr(spi_sensors[i], "cs_no")
        stops == {i \in 1..Len(spi_sensors) : bad(i) \/ hit(i)} IN
    IF stops = {} THEN "True"
    ELSE IF bad(Least(stops)) THEN "AttributeError" ELSE "False"

\* mutant: the baud rate is taken as part of the key
uart_validate_baud(sensor, regs) ==
    LET uart_sensors == get_uart_sensors(regs) IN
    IF \E i \in 1..Len(uart_sensors) :
          /\ sensor.base.bus_no = uart_sensors[i].base.bus_no
          /\ Attr(sensor, "baud_rate") = Attr(uart_sensors[i], "baud_rate")
    THEN "False" ELSE "True"

uart_validate(sensor, regs) ==
    LET uart_sensors == get_uart_sensors(regs) IN
    IF \E i \in 1..Len(uart_sensors) : sensor.base.bus_no = uart_sensors[i].base.bus_no
    THEN "False" ELSE "True"

validators(type_name, sensor, regs) ==
    CASE type_name = "i2c"  -> i2c_validate(sensor, regs)
      [] type_name = "spi"  -> spi_validate(sensor, regs)
      [] type_name = "uart" -> uart_validate(sensor, regs)
      [] OTHER              -> "KeyError"

(***************************************************************************)
(* get_sensor_by_alias (sensors_builder_validatedjson.py only): the first  *)
(* sensor of the list whose alias equals s_alias, or None.                 *)
(***************************************************************************)
\* mutant: the loop has no break, so the last match is returned
get_sensor_by_alias_nobreak(s_alias, regs) ==
    LET hits == {i \in 1..Len(regs) : regs[i].base.alias = s_alias} IN
    IF s_alias = "<None>" \/ hits = {} THEN NoSensor
    ELSE regs[CHOOSE i \in hits : \A j \in hits : j <= i]

get_sensor_by_alias(s_alias, regs) ==
    LET hits == {i \in 1..Len(regs) : regs[i].base.alias = s_alias} IN
    IF s_alias = "<None>" THEN NoSensor
    ELSE IF hits = {} THEN NoSensor
    ELSE regs[Least(hits)]

(***************************************************************************)
(* add_sensor, per variant, as a function of the registry's list and the   *)
(* input.  outcome is                                                       *)
(*   "added"     the sensor was appended                                     *)
(*   "failed"    construction raised inside the try block                    *)
(*   "conflict"  the validator returned False                                *)
(*   "error"     the validator lookup or the validator raised, in the try    *)
(*   "rejected"  the JSON failed a schema check (early return)               *)
(*   "raised"    an exception left add_sensor                                *)
(*   constructed is the number of sensor-class constructor calls made,       *)
(*   value what the call hands back to its caller: no add_sensor has a      *)
(*   return statement with an expression, so it is None whenever the call   *)
(*   returns at all.                                                         *)
(***************************************************************************)
Ret(regs, outcome, exc, cfg) ==
    [sensors |-> regs, outcome |-> outcome, exc |-> exc, configured |-> cfg,
     constructed |-> 0,
     value |-> IF outcome = "raised" THEN "<raised>" ELSE "None"]

\* the same, for a return after the sensor class was called
RetBuilt(regs, outcome, exc, cfg) ==
    [Ret(regs, outcome, exc, cfg) EXCEPT !.constructed = 1]

\* mutant: the sensor is appended before the validator's verdict is used
validate_and_append_early(regs, made) ==
    LET sensor == made.obj
        v == validators(sensor.base.type_name, sensor, regs) IN
    CASE v = "True"  -> RetBuilt(Append(regs, sensor), "added", "", made.configured)
      [] v = "False" -> RetBuilt(Append(regs, sensor), "conflict", "Exception", made.configured)
      [] OTHER       -> RetBuilt(regs, "error", v, made.configured)

\* mutant: the sensor is inserted at the head of the list
validate_and_append_front(regs, made) ==
    LET sensor == made.obj
        v == validators(sensor.base.type_name, sensor, regs) IN
    CASE v = "True"  -> RetBuilt(<<sensor>> \o regs, "added", "", made.configured)
      [] v = "False" -> RetBuilt(regs, "conflict", "Exception", made.configured)
      [] OTHER       -> RetBuilt(regs, "error", v, made.configured)

\* the try block's validation and append, the same in the five variants
validate_and_append(regs, made) ==
    LET sensor == made.obj
        v == validators(sensor.base.type_name, sensor, regs) IN
    CASE v = "True"  -> RetBuilt(Append(regs, sensor), "added", "", made.configured)
      [] v = "False" -> RetBuilt(regs, "conflict", "Exception", made.configured)
      [] OTHER       -> RetBuilt(regs, "error", v, made.configured)

sensors_add_sensor(regs, ppack) ==
    LET type == ppack[1]
        sub_ppack == Tail(ppack)
        made == CASE type = "i2c"  -> sensors_I2cSensor(sub_ppack)
                  [] type = "spi"  -> sensors_SpiSensor(sub_ppack)
                  [] type = "uart" -> sensors_UartSensor(sub_ppack) IN
    IF type \notin Kinds THEN Ret(regs, "raised", "KeyError", <<>>)
    ELSE IF made.exc # "" THEN RetBuilt(regs, "failed", made.exc, made.configured)
    ELSE RetBuilt(Append(regs, made.obj), "added", "", made.configured)

exp_add_sensor(regs, ppack) ==
    LET type == ppack[1]
        made == CASE type = "i2c"  -> exp_I2cSensor(ppack)
                  [] type = "spi"  -> exp_SpiSensor(ppack)
                  [] type = "uart" -> exp_UartSensor(ppack) IN
    IF type \notin Kinds THEN Ret(regs, "raised", "KeyError", <<>>)
    ELSE IF made.exc # "" THEN RetBuilt(regs, "failed", made.exc, made.configured)
    ELSE validate_and_append(regs, made)

builder_add_sensor(regs, ppack) ==
    LET type == ppack[1]
        made == CASE type = "i2c"  -> builder_I2cSensor(ppack)
                  [] type = "spi"  -> builder_SpiSensor(ppack)
                  [] type = "uart" -> builder_UartSensor(ppack) IN
    IF type \notin Kinds THEN Ret(regs, "raised", "KeyError", <<>>)
    ELSE IF made.exc # "" THEN RetBuilt(regs, "failed", made.exc, made.configured)
    ELSE validate_and_append(regs, made)

consolidated_add_sensor(regs, ppack) ==
    LET sensor_type == ppack[1]
        made == consolidated_build_sensor(sensor_type, Tail(ppack)) IN
    IF sensor_type \notin Kinds THEN Ret(regs, "raised", "KeyError", <<>>)
    ELSE IF made.exc # "" THEN RetBuilt(regs, "failed", made.exc, made.configured)
    ELSE validate_and_append(regs, made)

json_add_sensor(regs, json_spec) ==
    LET loaded == json_loads(json_spec)
        sensor_spec == loaded.value
        sensor_type == sensor_spec["sensor_type"]
        made == json_build_sensor(sensor_type, sensor_spec) IN
    IF loaded.exc # "" THEN Ret(regs, "raised", loaded.exc, <<>>)
    ELSE IF "sensor_type" \notin DOMAIN sensor_spec THEN Ret(regs, "raised", "KeyError", <<>>)
    ELSE IF sensor_type \notin Kinds THEN Ret(regs, "raised", "KeyError", <<>>)
    ELSE IF made.exc # "" THEN RetBuilt(regs, "failed", made.exc, made.configured)
    ELSE validate_and_append(regs, made)

vjson_add_sensor(regs, json_spec) ==
    LET loaded == json_loads(json_spec)
        sensor_spec == loaded.value
        sensor_type == sensor_spec["sensor_type"]
        made == json_build_sensor(sensor_type, sensor_spec) IN
    IF loaded.exc # "" THEN Ret(regs, "raised", loaded.exc, <<>>)
    ELSE IF ~JsonValidator_check(sensor_base_schema, sensor_spec)
         THEN Ret(regs, "rejected", "", <<>>)
    ELSE IF sensor_type \notin Kinds THEN Ret(regs, "raised", "KeyError", <<>>)
    ELSE IF ~JsonValidator_check(json_dev_schemas[sensor_type], sensor_spec)
         THEN Ret(regs, "rejected", "", <<>>)
    ELSE IF made.exc # "" THEN RetBuilt(regs, "failed", made.exc, made.configured)
    ELSE validate_and_append(regs, made)

add_sensor(v, regs, input) ==
    CASE v = "sensors"      -> sensors_add_sensor(regs, input)
      [] v = "exp"          -> exp_add_sensor(regs, input)
      [] v = "builder"      -> builder_add_sensor(regs, input)
      [] v = "consolidated" -> consolidated_add_sensor(regs, input)
      [] v = "json"         -> json_add_sensor(regs, input)
      [] v = "vjson"        -> vjson_add_sensor(regs, input)

(***************************************************************************)
(* Reading.  A readout is [shape, repr, parts]: its Python type, its text  *)
(* under "%s", and the texts of its elements (a list) or of its fields     *)
(* triggered, channel, ch_val (a ComplexValue).  The read function bound   *)
(* to a sensor is named in its base.                                        *)
(***************************************************************************)
Reading(shape, repr) == [shape |-> shape, repr |-> repr, parts |-> <<>>]

ListReading(repr, items) == [shape |-> "list", repr |-> repr, parts |-> items]

ComplexValue(triggered, channel, ch_val) ==
    [shape |-> "complex", repr |-> "<ComplexValue object>",
     parts |-> <<triggered, channel, ch_val>>]

\* values a driver's read function may hand back: the three shapes the
\* shipped drivers return, and three of other types
Readouts ==
    {Reading("float", "1.12345"), ListReading("[3, 4, 5]", <<"3", "4", "5">>),
     ComplexValue("True", "7", "8.765"), Reading("int", "42"),
     Reading("str", "n/a"), Reading("NoneType", "None")}

\* sensors.py and sensors_exp.py
plain_read(fn) ==
    CASE fn = "get_i2c_val"  -> Reading("int", "1")
      [] fn = "get_spi_val"  -> Reading("int", "2")
      [] fn = "get_uart_val" -> Reading("int", "3")

\* both driver modules return the same three values
driver_read(fn) ==
    CASE fn = "get_i2c_val"  -> Reading("float", "1.12345")
      [] fn = "get_spi_val"  -> ComplexValue("True", "7", "8.765")
      [] fn = "get_uart_val" -> ListReading("[3, 4, 5]", <<"3", "4", "5">>)

consolidated_read(fn) ==
    CASE fn = "get_i2c_val"  -> Reading("float", "5.555")
      [] fn = "get_spi_val"  -> Reading("float", "7.777")
      [] fn = "get_uart_val" -> Reading("float", "3.1234")

read(v, sensor) ==
    CASE v \in {"sensors", "exp"} -> plain_read(sensor.base.read)
      [] v = "consolidated"       -> consolidated_read(sensor.base.read)
      [] OTHER                    -> driver_read(sensor.base.read)

\* which branch of read_sensors a readout takes
report(v, val) ==
    CASE v \in {"sensors", "exp"} -> "scalar"
      [] v = "consolidated" ->
            IF val.shape = "float" THEN "scalar"
            ELSE IF val.shape = "list" THEN "list" ELSE "cannot parse"
      [] OTHER ->
            IF val.shape = "float" THEN "scalar"
            ELSE IF val.shape = "list" THEN "list"
            ELSE IF val.shape = "complex" THEN "complex" ELSE "cannot parse"

\* the lines read_sensors prints for the sensor at index idx (counted from
\* 0, as enumerate does): [line, no, text]
Line(line, no, text) == [line |-> line, no |-> no, text |-> text]

sensor_line(idx, val) == <<Line("sensor", idx, val.repr)>>

branch_lines(v, idx, val) ==
    CASE report(v, val) = "list" ->
            [k \in 1..Len(val.parts) |-> Line("item", k - 1, val.parts[k])]
      [] report(v, val) = "complex" ->
            <<Line("triggered", idx, val.parts[1]), Line("channel", idx, val.parts[2]),
              Line("value", idx, val.parts[3])>>
      [] report(v, val) = "cannot parse" -> <<Line("error", idx, "cannot parse")>>
      [] OTHER -> <<>>

\* sensors_builder.py and sensors_consolidated.py print the sensor line for
\* every readout, the JSON variants for a float only
report_lines(v, idx, val) ==
    CASE v \in {"sensors", "exp"} -> sensor_line(idx, val)
      [] v \in {"builder", "consolidated"} -> sensor_line(idx, val) \o branch_lines(v, idx, val)
      [] OTHER -> IF report(v, val) = "scalar" THEN sensor_line(idx, val)
                  ELSE branch_lines(v, idx, val)

\* sensors.py and sensors_exp.py format the readout with "%d"
report_exc(v, val) ==
    IF v \in {"sensors", "exp"} /\ val.shape \notin {"int", "float"} THEN "TypeError" ELSE ""

Entry(v, regs, vals, i) ==
    [alias |-> regs[i].base.alias, val |-> vals[i], report |-> report(v, vals[i]),
     lines |-> IF report_exc(v, vals[i]) = "" THEN report_lines(v, i - 1, vals[i]) ELSE <<>>]

\* mutant: the loop ends at the first readout it cannot parse
read_sensors_of_stopping(v, regs, vals) ==
    LET stops == {i \in 1..Len(regs) :
                     report_exc(v, vals[i]) # "" \/ report(v, vals[i]) = "cannot parse"}
        n == IF stops = {} THEN Len(regs) ELSE Least(stops) IN
    [entries |-> [i \in 1..n |-> Entry(v, regs, vals, i)],
     exc |-> IF stops = {} THEN "" ELSE report_exc(v, vals[Least(stops)])]

\* read_sensors when the read function of regs[i] hands back vals[i]: an
\* entry for every sensor read, and the exception that ended the loop, if
\* one did
read_sensors_of(v, regs, vals) ==
    LET stops == {i \in 1..Len(regs) : report_exc(v, vals[i]) # ""}
        n == IF stops = {} THEN Len(regs) ELSE Least(stops) IN
    [entries |-> [i \in 1..n |-> Entry(v, regs, vals, i)],
     exc |-> IF stops = {} THEN "" ELSE "TypeError"]

\* with the read functions the files bind
read_sensors(v, regs) ==
    read_sensors_of(v, regs, [i \in 1..Len(regs) |-> read(v, regs[i])]).entries


(***************************************************************************)
(* list_sensors.  get_info prints bus_no and the kind-specific field with  *)
(* "%d", which raises TypeError on a value that is no number.              *)
(***************************************************************************)
IsPyInt(v) == v \notin {PyNone, PyStr, NoAttr}

get_info(sensor) ==
    IF ~IsPyInt(sensor.base.bus_no) THEN "TypeError"
    ELSE IF ~HasAttr(sensor, FieldName(sensor.cls)) THEN "AttributeError"
    ELSE IF ~IsPyInt(Attr(sensor, FieldName(sensor.cls))) THEN "TypeError"
    ELSE ""

\* the sensors get_info was called on, in the order called, and the
\* exception that ended the loop, if one did
list_sensors(regs) ==
    LET stops == {i \in 1..Len(regs) : get_info(regs[i]) # ""} IN
    IF stops = {} THEN [visited |-> regs, exc |-> ""]
    ELSE [visited |-> SubSeq(regs, 1, Least(stops)), exc |-> get_info(regs[Least(stops)])]

(***************************************************************************)
(* get_sensor_data.  The generator object holds its position in the loop   *)
(* `for sensor in self.sensors`; reads lists the positions whose read      *)
(* function it has called, yielded the pairs it has handed out.  len0 is   *)
(* the length the list had when the generator was obtained (kept for the   *)
(* properties; the generator does not hold it).                            *)
(***************************************************************************)
GenIds == {"sdata1", "sdata2"}

NoGenerator == [state |-> "none", pos |-> 0, reads |-> <<>>, yielded |-> <<>>, len0 |-> 0]

\* mutant: a new generator takes up the list where the list ends now
get_sensor_data_resumed(regs) ==
    [state |-> "open", pos |-> Len(regs), reads |-> <<>>, yielded |-> <<>>, len0 |-> Len(regs)]

\* calling the generator function runs none of its body
get_sensor_data(regs) ==
    [state |-> "open", pos |-> 0, reads |-> <<>>, yielded |-> <<>>, len0 |-> Len(regs)]

\* mutant: the first next() reads every sensor of the list
generator_next_eager(v, regs, g) ==
    IF g.pos < Len(regs)
    THEN [g EXCEPT !.pos = g.pos + 1,
                   !.reads = IF g.pos = 0 THEN [i \in 1..Len(regs) |-> i] ELSE g.reads,
                   !.yielded = Append(g.yielded, <<regs[g.pos + 1].base.alias,
                                                   read(v, regs[g.pos + 1])>>)]
    ELSE [g EXCEPT !.state = "done"]

\* mutant: the loop runs over the list as it was when the generator was made
generator_next_snapshot(v, regs, g) ==
    IF g.state = "done" THEN g
    ELSE IF g.pos < g.len0
    THEN [g EXCEPT !.pos = g.pos + 1,
                   !.reads = Append(g.reads, g.pos + 1),
                   !.yielded = Append(g.yielded, <<regs[g.pos + 1].base.alias,
                                                   read(v, regs[g.pos + 1])>>)]
    ELSE [g EXCEPT !.state = "done"]

\* one next(): the loop takes the element at its position in the list as
\* the list is now, reads it and yields; past the end the generator ends,
\* and a generator that has ended stays ended
generator_next(v, regs, g) ==
    IF g.state = "done" THEN g
    ELSE IF g.pos < Len(regs)
    THEN [g EXCEPT !.pos = g.pos + 1,
                   !.reads = Append(g.reads, g.pos + 1),
                   !.yielded = Append(g.yielded, <<regs[g.pos + 1].base.alias,
                                                   read(v, regs[g.pos + 1])>>)]
    ELSE [g EXCEPT !.state = "done"]


(***************************************************************************)
(* State.                                                                  *)
(*   variant   which file's Sensors class the registry is                  *)
(*   sensors   the list object `sensors=[]` in the signature of            *)
(*             Sensors.__init__ denotes, which self.sensors of a registry  *)
(*             made by Sensors() refers to                                 *)
(*   registries  the Sensors objects made, in the order made               *)
(*   last      the last call: its input, its outcome, the list before it,  *)
(*             the configure calls it made and what it returned or printed *)
(*   gen       the generators obtained from get_sensor_data, by the name   *)
(*             the caller keeps them under: each "none", or "open" at      *)
(*             position pos of the list, or "done"                         *)
(*   threads   the add_sensor calls in progress, one per thread: where the *)
(*             call stands and the sensor it has built                     *)
(***************************************************************************)
Call(op, input, r, pre, result) ==
    [op |-> op, input |-> input, outcome |-> r.outcome, exc |-> r.exc,
     pre |-> pre, configured |-> r.configured, constructed |-> r.constructed,
     value |-> r.value, result |-> result, self |-> 1]

\* the same call made on the k-th registry
CallOn(k, call) == [call EXCEPT !.self = k]

\* Sensors.__init__: self.sensors = sensors, a reference to the list passed
Sensors_init(sensors_arg) == [sensors |-> sensors_arg]

\* the default of the parameter: the one list made when the def was run
DefaultList == "sensors=[]"

\* the content of the list a registry's self.sensors refers to
ListOf(obj) == CASE obj.sensors = DefaultList -> sensors

NoCall == Call("none", <<>>, Ret(<<>>, "", "", <<>>), <<>>, <<>>)

Done(regs) == Ret(regs, "returned", "", <<>>)

Threads == 1..MaxThreads

\* a thread that is in no add_sensor call
Idle == [pc |-> "idle", input |-> <<>>, sensor |-> NoSensor]

Init ==
    /\ variant \in Variants
    /\ sensors = <<>>
    /\ last = NoCall
    /\ gen = [id \in GenIds |-> NoGenerator]
    /\ registries = <<Sensors_init(DefaultList)>>
    /\ threads = [t \in Threads |-> Idle]

\* one add_sensor call; the registry holds at most MaxSensors sensors
AddSensor(v, input) ==
    LET r == add_sensor(v, sensors, input) IN
    /\ variant = v
    /\ Len(r.sensors) <= MaxSensors
    /\ sensors' = r.sensors
    /\ last' = Call("add_sensor", input, r, sensors, <<>>)
    /\ UNCHANGED <<variant, threads, gen, registries>>

Sensors_add_sensor == \E ppack \in PPacks : AddSensor("sensors", ppack)
Exp_add_sensor == \E ppack \in PPacks : AddSensor("exp", ppack)
Builder_add_sensor == \E ppack \in PPacks : AddSensor("builder", ppack)
Consolidated_add_sensor == \E ppack \in PPacks : AddSensor("consolidated", ppack)
Json_add_sensor == \E json_spec \in JsonSpecs : AddSensor("json", json_spec)
VJson_add_sensor == \E json_spec \in JsonSpecs : AddSensor("vjson", json_spec)

Sensors_read_sensors ==
    /\ last' = Call("read_sensors", <<>>, Done(sensors), sensors,
                    read_sensors(variant, sensors))
    /\ UNCHANGED <<variant, threads, sensors, gen, registries>>

Sensors_list_sensors ==
    LET r == list_sensors(sensors) IN
    /\ last' = Call("list_sensors", <<>>,
                    Ret(sensors, IF r.exc = "" THEN "returned" ELSE "raised", r.exc, <<>>),
                    sensors, r.visited)
    /\ UNCHANGED <<variant, threads, sensors, gen, registries>>

\* read_sensors with the drivers as the environment: the read function of
\* each sensor hands back one of Readouts
Driver_read_sensors ==
    \E vals \in [1..Len(sensors) -> Readouts] :
        LET r == read_sensors_of(variant, sensors, vals) IN
        /\ last' = Call("read_sensors", vals,
                        Ret(sensors, IF r.exc = "" THEN "returned" ELSE "raised", r.exc, <<>>),
                        sensors, r.entries)
        /\ UNCHANGED <<variant, threads, sensors, gen, registries>>

\* get_i2c_sensors(), get_spi_sensors(), get_uart_sensors(); sensors.py has
\* none of them
Sensors_get_kind_sensors ==
    \E kind \in Kinds :
        /\ variant # "sensors"
        /\ last' = Call("get_kind_sensors", kind, Done(sensors), sensors,
                        get_kind_sensors(kind, sensors))
        /\ UNCHANGED <<variant, threads, sensors, gen, registries>>

\* the aliases asked for: those the inputs use, one no input uses, and None
AliasQueries == Aliases \cup {"nonexistent", "<None>"}

VJson_get_sensor_by_alias ==
    \E s_alias \in AliasQueries :
        /\ variant = "vjson"
        /\ last' = Call("get_sensor_by_alias", s_alias, Done(sensors), sensors,
                        <<get_sensor_by_alias(s_alias, sensors)>>)
        /\ UNCHANGED <<variant, threads, sensors, gen, registries>>

\* sdata = sensors.get_sensor_data(); sensors.py has no get_sensor_data
Sensors_get_sensor_data ==
    \E id \in GenIds :
        /\ variant # "sensors"
        /\ gen' = [gen EXCEPT ![id] = get_sensor_data(sensors)]
        /\ last' = Call("get_sensor_data", id, Done(sensors), sensors, <<>>)
        /\ UNCHANGED <<variant, threads, sensors, registries>>

\* next(sdata)
Generator_next ==
    \E id \in GenIds :
        LET g == generator_next(variant, sensors, gen[id]) IN
        /\ gen[id].state # "none"
        /\ gen' = [gen EXCEPT ![id] = g]
        /\ last' = IF g.state = "open"
                   THEN Call("next", id, Done(sensors), sensors, <<g.yielded[Len(g.yielded)]>>)
                   ELSE Call("next", id, Ret(sensors, "raised", "StopIteration", <<>>),
                             sensors, <<>>)
        /\ UNCHANGED <<variant, threads, sensors, registries>>

Next ==
    \/ Sensors_add_sensor
    \/ Exp_add_sensor
    \/ Builder_add_sensor
    \/ Consolidated_add_sensor
    \/ Json_add_sensor
    \/ VJson_add_sensor
    \/ Sensors_read_sensors
    \/ Sensors_list_sensors
    \/ Sensors_get_kind_sensors
    \/ VJson_get_sensor_by_alias

Spec == Init /\ [][Next]_vars

\* the registry with generators in use; the sensors added are in-range ones
GenPacks ==
    {p \in PPacks : p[1] \in Kinds /\ p[2] = 1 /\ p[3] = Least(KeyValues(p[1])) /\ p[5] = "A1"}

Gen_add_sensor ==
    \E ppack \in GenPacks :
        AddSensor(variant, IF variant \in JsonVariants THEN JsonOf(ppack) ELSE ppack)

GenNext ==
    \/ Gen_add_sensor
    \/ Sensors_list_sensors
    \/ Sensors_get_sensor_data
    \/ Generator_next

GenSpec == Init /\ [][GenNext]_vars

\* the registry read through drivers that may hand back any of Readouts
ReadNext ==
    \/ Gen_add_sensor
    \/ Driver_read_sensors

ReadSpec == Init /\ [][ReadNext]_vars

\* several registries, each made by Sensors() with no argument
Sensors_new ==
    /\ Len(registries) < MaxRegistries
    /\ registries' = Append(registries, Sensors_init(DefaultList))
    /\ last' = CallOn(Len(registries) + 1, Call("Sensors", <<>>, Done(sensors), sensors, <<>>))
    /\ UNCHANGED <<variant, threads, sensors, gen>>

\* add_sensor on the k-th registry: it validates against and appends to the
\* list its self.sensors refers to
Registry_add_sensor ==
    \E k \in 1..Len(registries), ppack \in GenPacks :
        LET input == IF variant \in JsonVariants THEN JsonOf(ppack) ELSE ppack
            r == add_sensor(variant, ListOf(registries[k]), input) IN
        /\ Len(r.sensors) <= MaxSensors
        /\ registries[k].sensors = DefaultList
        /\ sensors' = r.sensors
        /\ last' = CallOn(k, Call("add_sensor", input, r, ListOf(registries[k]), <<>>))
        /\ UNCHANGED <<variant, threads, gen, registries>>

RegNext ==
    \/ Sensors_new
    \/ Registry_add_sensor

RegSpec == Init /\ [][RegNext]_vars


(***************************************************************************)
(* A further specification, for the properties of the names and of the     *)
(* properties an input may carry beyond the declared ones: sensors with    *)
(* dev_name and alias given, None or empty (and, in JSON, left out), JSON  *)
(* objects with a further property, and SensorBuilder.with_field applied   *)
(* to a newly made sensor object.                                           *)
(***************************************************************************)
\* dev_name and alias: both given, or one None and the other empty
NamePairs == {<<"dev", "A1">>, <<"", "<None>">>, <<"<None>", "">>}

NamePacks ==
    {<<t, b, Least(KeyValues(t)), n[1], n[2]>> : t \in Kinds, b \in {1}, n \in NamePairs}

\* valid, fully named sensors: one of each kind on bus 1, a UART on port 2
PlainPacks ==
    {<<t, 1, Least(KeyValues(t)), "dev", "A1">> : t \in Kinds}
        \cup {<<"uart", 2, Least(KeyValues("uart")), "dev", "A1">>}

\* the UART sensors among them (the one kind the JSON variants can build)
UartPacks == {p \in PlainPacks : p[1] = "uart"}

\* a frequency, as in "clk_speed": 400000 of the demo
ClkSpeed == 400

ExtJsonSpecs ==
    {JsonOf(p) : p \in NamePacks \cup PlainPacks}
    \cup {Without(JsonOf(p), n) : p \in UartPacks, n \in {"dev_name", "alias"}}
    \cup {("type_name" :> "i2c") @@ JsonOf(p) : p \in UartPacks}
    \cup {(n :> "<str>") @@ JsonOf(p) : p \in UartPacks, n \in {"read", "config"}}
    \cup {("clk_speed" :> ClkSpeed) @@ JsonOf(p) : p \in PlainPacks}

ExtInputs(v) == IF v \in JsonVariants THEN ExtJsonSpecs ELSE NamePacks \cup PlainPacks

Ext_add_sensor == \E input \in ExtInputs(variant) : AddSensor(variant, input)

\* raw_obj = sensor_clsname(base_type=base_clsname) of build_sensor
raw_obj(v, sensor_clsname) ==
    IF v = "consolidated"
    THEN CASE sensor_clsname = "i2c"  -> consolidated_I2cSensor
           [] sensor_clsname = "spi"  -> consolidated_SpiSensor
           [] sensor_clsname = "uart" -> consolidated_UartSensor
    ELSE CASE sensor_clsname = "i2c"  -> json_I2cSensor
           [] sensor_clsname = "spi"  -> json_SpiSensor
           [] sensor_clsname = "uart" -> json_UartSensor

with_field(v, obj, field_name, field_value) ==
    IF v = "consolidated" THEN consolidated_with_field(obj, field_name, field_value)
    ELSE json_with_field(obj, field_name, field_value)

IntFieldNames == {"bus_no", "i2c_addr", "cs_no", "baud_rate", "clk_speed"}
StrFieldNames == {"dev_name", "alias", "type_name", "vendor"}

\* SensorBuilder(sensor_instance=raw_obj).with_field(field_name, field_value).build()
WithField(sensor_clsname, field_name, field_value) ==
    LET raw == raw_obj(variant, sensor_clsname) IN
    /\ variant \in BuilderPatternVariants
    /\ raw.exc = ""
    /\ last' = Call("with_field", <<sensor_clsname, field_name>>, Done(sensors),
                    <<raw.obj>>,
                    <<with_field(variant, raw.obj, field_name, field_value)>>)
    /\ UNCHANGED <<variant, threads, sensors, gen, registries>>

SensorBuilder_with_field ==
    \E sensor_clsname \in Kinds :
        \/ \E field_name \in IntFieldNames : WithField(sensor_clsname, field_name, ClkSpeed)
        \/ \E field_name \in StrFieldNames : WithField(sensor_clsname, field_name, "<str>")

ExtNext ==
    \/ Ext_add_sensor
    \/ Sensors_get_kind_sensors
    \/ SensorBuilder_with_field

ExtSpec == Init /\ [][ExtNext]_vars


(***************************************************************************)
(* A further specification: add_sensor called from several threads on one  *)
(* registry.  No file takes a lock, so a thread may be suspended between   *)
(* any two statements; the step that matters is between the validator's    *)
(* return and self.sensors.append(sensor).  A call is modelled in two      *)
(* steps: the first runs add_sensor up to the validator's verdict, against *)
(* the list as it is then; the second is the append, to the list as it is  *)
(* then.                                                                    *)
(***************************************************************************)
\* the calls in progress that have passed validation
Pending == {t \in Threads : threads[t].pc = "validated"}

\* the try block up to `if validator(sensor):`
Thread_validate ==
    \E t \in Threads, ppack \in GenPacks :
        LET input == IF variant \in JsonVariants THEN JsonOf(ppack) ELSE ppack
            r == add_sensor(variant, sensors, input) IN
        /\ threads[t].pc = "idle"
        /\ Len(sensors) + Cardinality(Pending) < MaxSensors
        /\ threads' = [threads EXCEPT ![t] =
                          IF r.outcome = "added"
                          THEN [pc |-> "validated", input |-> input,
                                sensor |-> r.sensors[Len(r.sensors)]]
                          ELSE Idle]
        /\ last' = CallOn(t, Call("validator", input,
                                  [r EXCEPT !.outcome = IF @ = "added" THEN "passed" ELSE @],
                                  sensors, <<>>))
        /\ UNCHANGED <<variant, sensors, gen, registries>>

\* self.sensors.append(sensor), and the return
Thread_append ==
    \E t \in Pending :
        /\ sensors' = Append(sensors, threads[t].sensor)
        /\ threads' = [threads EXCEPT ![t] = Idle]
        /\ last' = CallOn(t, Call("append", threads[t].input,
                                  RetBuilt(sensors', "added", "", <<>>), sensors, <<>>))
        /\ UNCHANGED <<variant, gen, registries>>

ConcNext ==
    \/ Thread_validate
    \/ Thread_append

ConcSpec == Init /\ [][ConcNext]_vars


(***************************************************************************)
(* Vocabulary of the properties.                                           *)
(***************************************************************************)
IsPrefix(s, t) == Len(s) <= Len(t) /\ SubSeq(t, 1, Len(s)) = s

IsAdd == last.op = "add_sensor"

WellFormed(v, input) == v \in JsonVariants => "malformed" \notin DOMAIN input

\* the type tag, bus number, kind-specific field and alias an input names
\* (PyNone, "<None>" where a JSON object leaves the property out)
Prop(input, name, default) == IF name \in DOMAIN input THEN input[name] ELSE default

InputType(v, input) ==
    IF v \in JsonVariants THEN Prop(input, "sensor_type", "<None>") ELSE input[1]
InputBus(v, input) ==
    IF v \in JsonVariants THEN Prop(input, "bus_no", PyNone) ELSE input[2]
InputField(v, input) ==
    IF v \in JsonVariants THEN Prop(input, FieldName(InputType(v, input)), PyNone)
    ELSE input[3]
InputAlias(v, input) ==
    IF v \in JsonVariants THEN Prop(input, "alias", "<None>") ELSE input[5]

InRange(type, value) ==
    CASE type = "i2c"  -> 0 <= value /\ value <= MAX_I2C_ADDR
      [] type = "spi"  -> 0 <= value /\ value <= MAX_CS_VAL
      [] type = "uart" -> MIN_BAUD_RATE <= value /\ value <= MAX_BAUD_RATE
      [] OTHER         -> FALSE

\* a complete input of a known kind with its field in range
ValidInput(v, input) ==
    /\ WellFormed(v, input)
    /\ InputType(v, input) \in Kinds
    /\ InputBus(v, input) \in Buses
    /\ InRange(InputType(v, input), InputField(v, input))
    /\ v \in JsonVariants => Prop(input, "dev_name", "<None>") \in DevNames

\* the kind the registry files a sensor under, and its bus resource key
KindOf(sensor) == sensor.base.type_name
KeyOf(sensor) ==
    CASE KindOf(sensor) = "i2c"  -> <<sensor.base.bus_no, Attr(sensor, "i2c_addr")>>
      [] KindOf(sensor) = "spi"  -> <<sensor.base.bus_no, Attr(sensor, "cs_no")>>
      [] KindOf(sensor) = "uart" -> <<sensor.base.bus_no>>

FieldOf(sensor) == Attr(sensor, FieldName(sensor.cls))

\* the sensor is the one the input describes
Describes(v, input, sensor) ==
    /\ sensor.cls = InputType(v, input)
    /\ sensor.base.bus_no = InputBus(v, input)
    /\ FieldOf(sensor) = InputField(v, input)
    /\ sensor.base.alias = InputAlias(v, input)

Failures == {"failed", "conflict", "error", "rejected", "raised"}

C2_AllOrNothing ==
    (IsAdd /\ last.outcome \in Failures) => sensors = last.pre

\* a collision was reported on a registry that holds sensors
C2_Witness ==
    /\ IsAdd /\ last.outcome = "conflict"
    /\ Len(sensors) = MaxSensors

\* construction raised on a registry that holds sensors
C2_WitnessConstruction ==
    /\ IsAdd /\ last.outcome = "failed"
    /\ Len(sensors) = MaxSensors


(***************************************************************************)
(* C3.  In the parameter-pack variants that validate (sensors_exp.py,      *)
(* sensors_builder.py, sensors_consolidated.py): when a valid I2C pack is  *)
(* added to the registry holding just one I2C sensor, added to the empty   *)
(* registry, with the same (bus_no, i2c_addr), the call is refused as a    *)
(* conflict and the registry keeps exactly that first sensor.              *)
(***************************************************************************)
C3_Variants == PPackVariants \cap ValidatedVariants

C3_SecondI2cCase ==
    /\ variant \in C3_Variants
    /\ IsAdd
    /\ ValidInput(variant, last.input)
    /\ InputType(variant, last.input) = "i2c"
    /\ Len(last.pre) = 1
    /\ last.pre[1].cls = "i2c"
    /\ InRange("i2c", FieldOf(last.pre[1]))
    /\ last.pre[1].base.bus_no = InputBus(variant, last.input)
    /\ FieldOf(last.pre[1]) = InputField(variant, last.input)

C3_DuplicateI2cRefused ==
    C3_SecondI2cCase => (last.outcome = "conflict" /\ sensors = last.pre)

\* the second pack differs from the first in its alias only
C3_Witness ==
    /\ C3_SecondI2cCase
    /\ last.pre[1].base.alias # InputAlias(variant, last.input)
    /\ Len(get_i2c_sensors(sensors)) = 1

(***************************************************************************)
(* C4.  In every variant, two SPI sensors with the same bus_no, different  *)
(* cs_no, both in [0,7], added to the empty registry are both registered,  *)
(* in the order added.  (Stated per call: the first is registered alone,   *)
(* the second behind it.)                                                   *)
(***************************************************************************)
C4_SpiInput ==
    /\ IsAdd
    /\ ValidInput(variant, last.input)
    /\ InputType(variant, last.input) = "spi"

C5_SamePortCase ==
    /\ variant \in ValidatedVariants
    /\ IsAdd
    /\ ValidInput(variant, last.input)
    /\ InputType(variant, last.input) = "uart"
    /\ \E i \in 1..Len(last.pre) :
          /\ last.pre[i].cls = "uart"
          /\ last.pre[i].base.bus_no = InputBus(variant, last.input)

C6_AppendOnly ==
    [][/\ IsPrefix(sensors, sensors')
       /\ (last'.op = "add_sensor" /\ last'.outcome = "added")
             => /\ Len(sensors') = Len(sensors) + 1
                /\ Describes(variant, last'.input, sensors'[Len(sensors')])
       /\ ~(last'.op = "add_sensor" /\ last'.outcome = "added")
             => sensors' = sensors]_vars

\* two adds succeeded, the second sensor differing from the first
C6_Witness ==
    /\ IsAdd /\ last.outcome = "added"
    /\ Len(sensors) = 2
    /\ last.pre = <<sensors[1]>>
    /\ sensors[1] # sensors[2]


(***************************************************************************)
(* C7.  In sensors.py, sensors_exp.py and sensors_builder.py, add_sensor   *)
(* on the empty registry registers an I2C sensor iff its address is in     *)
(* [0,127], an SPI sensor iff its chip-select is in [0,7], a UART sensor   *)
(* iff its baud rate is in [2400,921400]; a refused sensor is not          *)
(* registered.                                                              *)
(***************************************************************************)
C7_AcceptedIffInRange ==
    (/\ variant \in RangeCheckedVariants
     /\ IsAdd
     /\ last.pre = <<>>
     /\ InputType(variant, last.input) \in Kinds)
        => /\ (last.outcome = "added" /\ Len(sensors) = 1)
                <=> InRange(InputType(variant, last.input), InputField(variant, last.input))
           /\ last.outcome # "added" => sensors = <<>>

(***************************************************************************)
(* C8.  In sensors_consolidated.py and the two JSON variants no registered *)
(* sensor has its kind-specific field out of range: I2C address in         *)
(* [0,127], SPI chip-select in [0,7], UART baud rate in [2400,921400].     *)
(***************************************************************************)
C8_RegisteredInRange ==
    variant \in BuilderPatternVariants =>
        \A i \in 1..Len(sensors) : InRange(sensors[i].cls, FieldOf(sensors[i]))

(***************************************************************************)
(* C9.  add_sensor with a type tag other than "i2c", "spi", "uart" is      *)
(* handled inside add_sensor: no exception leaves the call and the list is *)
(* unchanged.                                                               *)
(***************************************************************************)
C9_UnknownKindCase ==
    /\ IsAdd
    /\ WellFormed(variant, last.input)
    /\ InputType(variant, last.input) \notin Kinds

C9_UnknownKindHandled ==
    C9_UnknownKindCase => (last.outcome # "raised" /\ sensors = last.pre)

(***************************************************************************)
(* C10.  No failure disables the registry: right after an add_sensor call  *)
(* that failed (range error, conflict or schema error), an add_sensor with *)
(* a valid sensor that collides with no registered one appends it, and     *)
(* read_sensors reports the reading of every registered sensor, in order.  *)
(***************************************************************************)
\* no registered sensor of the input's kind is one its validator refuses
NonConflicting(v, input, regs) ==
    \A i \in 1..Len(regs) :
        regs[i].cls = InputType(v, input) =>
            CASE regs[i].cls = "i2c"  -> FieldOf(regs[i]) # InputField(v, input)
              [] regs[i].cls = "spi"  -> \/ regs[i].base.bus_no # InputBus(v, input)
                                         \/ FieldOf(regs[i]) # InputField(v, input)
              [] regs[i].cls = "uart" -> regs[i].base.bus_no # InputBus(v, input)

C10_AfterFailure == IsAdd /\ last.outcome \in {"failed", "conflict", "rejected"}

C10_NoFailureIsFatal ==
    [][C10_AfterFailure =>
        /\ (/\ last'.op = "add_sensor"
            /\ ValidInput(variant, last'.input)
            /\ NonConflicting(variant, last'.input, sensors))
              => /\ last'.outcome = "added"
                 /\ Len(sensors') = Len(sensors) + 1
                 /\ IsPrefix(sensors, sensors')
                 /\ Describes(variant, last'.input, sensors'[Len(sensors')])
        /\ last'.op = "read_sensors"
              => /\ Len(last'.result) = Len(sensors)
                 /\ \A i \in 1..Len(sensors) :
                       /\ last'.result[i].alias = sensors[i].base.alias
                       /\ last'.result[i].val = read(variant, sensors[i])]_vars

(***************************************************************************)
(* C11.  The value add_sensor returns tells its caller how the call ended: *)
(* of two calls that returned, one having added its sensor, one having     *)
(* failed in construction and one having met a resource conflict, no two   *)
(* return the same value.  (Stated on consecutive calls.)                  *)
(***************************************************************************)
C11_Class(outcome) ==
    CASE outcome = "added"    -> "success"
      [] outcome = "failed"   -> "construction failure"
      [] outcome = "conflict" -> "resource conflict"
      [] OTHER                -> "other"

C11_StructuredOutcome ==
    [][(/\ IsAdd /\ last'.op = "add_sensor"
        /\ C11_Class(last.outcome) # "other"
        /\ C11_Class(last'.outcome) # "other"
        /\ C11_Class(last.outcome) # C11_Class(last'.outcome))
          => last.value # last'.value]_vars

(***************************************************************************)
(* C12.  get_sensor_data is lazy and ordered: a generator that has handed  *)
(* out k pairs has called the read function of exactly the first k sensors *)
(* of the list, each once and in list order; its i-th pair is the alias    *)
(* and the reading of the i-th sensor; and when it ends it has handed out  *)
(* one pair per registered sensor.                                          *)
(***************************************************************************)
C12_ReadAsYielded ==
    \A id \in GenIds :
        LET g == gen[id]
            k == Len(g.yielded) IN
        /\ k <= Len(sensors)
        /\ g.reads = [i \in 1..k |-> i]
        /\ \A i \in 1..k :
              g.yielded[i] = <<sensors[i].base.alias, read(variant, sensors[i])>>

C12_LazyInOrder ==
    /\ []C12_ReadAsYielded
    /\ [][\A id \in GenIds :
            (gen[id].state = "open" /\ gen'[id].state = "done")
                => Len(gen'[id].yielded) = Len(sensors')]_vars

\* a generator has handed out one pair while two sensors are registered
C12_Witness ==
    \E id \in GenIds :
        /\ gen[id].state = "open"
        /\ Len(gen[id].yielded) = 1
        /\ Len(sensors) = 2
        /\ last.op = "next" /\ last.input = id

\* a generator ended after handing out a pair for each of two sensors
C12_WitnessExhausted ==
    /\ last.op = "next" /\ last.exc = "StopIteration"
    /\ Len(sensors) = 2
    /\ Len(gen[last.input].yielded) = 2
    /\ sensors[1] # sensors[2]

(***************************************************************************)
(* C13.  Iteration is restartable.  Two generators that have both run to   *)
(* their end, with no sensor added since either was obtained, have read    *)
(* the same sensors in the same order and handed out the same pairs, one   *)
(* per registered sensor; a list_sensors call visits the sensors of the    *)
(* list as it is, from the first on and in list order, so that two calls   *)
(* with no add between them visit the same; and list_sensors,              *)
(* get_sensor_data and next() leave the list as it is.                     *)
(***************************************************************************)
C13_BothExhausted ==
    \A id \in GenIds : gen[id].state = "done" /\ gen[id].len0 = Len(sensors)

C13_Iterating == {"list_sensors", "get_sensor_data", "next"}

C13_Restartable ==
    /\ [](C13_BothExhausted =>
            \A id1, id2 \in GenIds :
                /\ gen[id1].reads = gen[id2].reads
                /\ gen[id1].yielded = gen[id2].yielded
                /\ Len(gen[id1].yielded) = Len(sensors))
    /\ [](last.op = "list_sensors" =>
            /\ IsPrefix(last.result, sensors)
            /\ last.exc = "" => last.result = sensors)
    /\ [][last'.op \in C13_Iterating => sensors' = sensors]_vars

\* two generators were run to their end, one after the other, over the same
\* two sensors
C13_Witness ==
    /\ C13_BothExhausted
    /\ Len(sensors) = 2
    /\ sensors[1] # sensors[2]
    /\ Len(gen["sdata1"].yielded) = 2
    /\ last.op = "next" /\ last.input = "sdata2"

\* list_sensors has visited two sensors
C13_WitnessListed ==
    /\ last.op = "list_sensors"
    /\ Len(last.result) = 2

(***************************************************************************)
(* C14.  get_i2c_sensors, get_spi_sensors and get_uart_sensors return the  *)
(* registered sensors of the I2C, SPI and UART class, each in list order,  *)
(* and leave the list as it is; every registered sensor is in exactly one  *)
(* of the three results.                                                    *)
(***************************************************************************)
C14_OfClass(kind, regs) == SelectSeq(regs, LAMBDA s : s.cls = kind)

C14_Occurs(sensor, seq) == \E j \in 1..Len(seq) : seq[j] = sensor

C14_WitnessOrder ==
    /\ last.op = "get_kind_sensors"
    /\ Len(sensors) = 2
    /\ last.result = sensors
    /\ sensors[1] # sensors[2]

(***************************************************************************)
(* C15.  get_sensor_by_alias(a) returns the earliest-registered sensor     *)
(* whose alias is a; it returns None, raising nothing, when no registered  *)
(* sensor has the alias a or when a is None; it leaves the list as it is.  *)
(***************************************************************************)
C15_Matches(a, regs) == {i \in 1..Len(regs) : regs[i].base.alias = a}

C15_FirstByAlias ==
    last.op = "get_sensor_by_alias" =>
        LET a == last.input
            found == last.result[1] IN
        /\ last.outcome # "raised"
        /\ sensors = last.pre
        /\ (a = "<None>" \/ C15_Matches(a, sensors) = {}) => found = NoSensor
        /\ (a # "<None>" /\ C15_Matches(a, sensors) # {})
              => \E i \in C15_Matches(a, sensors) :
                    /\ found = sensors[i]
                    /\ \A j \in C15_Matches(a, sensors) : i <= j

\* two different sensors share the alias asked for; the first was returned
C15_Witness ==
    /\ last.op = "get_sensor_by_alias"
    /\ Len(sensors) = 2
    /\ sensors[1] # sensors[2]
    /\ C15_Matches(last.input, sensors) = {1, 2}
    /\ last.result[1] = sensors[1]

\* an alias no sensor has was asked for on a registry that holds sensors
C15_WitnessNotFound ==
    /\ last.op = "get_sensor_by_alias"
    /\ Len(sensors) = 2
    /\ last.input = "nonexistent"
    /\ last.result[1] = NoSensor

(***************************************************************************)
(* C16.  In every variant whose read_sensors dispatches on the readout     *)
(* (sensors_builder.py, sensors_consolidated.py and the JSON variants): a  *)
(* float readout is reported as one sensor line and nothing else; a list   *)
(* readout element by element, each with its position in the list; a       *)
(* ComplexValue readout with its triggered, channel and value fields; and  *)
(* none of the three ends in the 'cannot parse' branch.                    *)
(***************************************************************************)
DispatchVariants == {"builder", "consolidated", "json", "vjson"}

DefinedShapes == {"float", "list", "complex"}

LinesOf(entry, kinds) == SelectSeq(entry.lines, LAMBDA l : l.line \in kinds)

C16_Classified(idx, entry) ==
    LET val == entry.val IN
    /\ val.shape = "float" => entry.lines = <<Line("sensor", idx, val.repr)>>
    /\ val.shape = "list" =>
          LinesOf(entry, {"item"}) = [k \in 1..Len(val.parts) |-> Line("item", k - 1, val.parts[k])]
    /\ val.shape = "complex" =>
          LinesOf(entry, {"triggered", "channel", "value"}) =
              <<Line("triggered", idx, val.parts[1]), Line("channel", idx, val.parts[2]),
                Line("value", idx, val.parts[3])>>
    /\ val.shape \in DefinedShapes => LinesOf(entry, {"error"}) = <<>>

C16_ShapesDispatched ==
    (variant \in DispatchVariants /\ last.op = "read_sensors")
        => \A i \in 1..Len(last.result) : C16_Classified(i - 1, last.result[i])

(***************************************************************************)
(* C17.  In the same variants a readout that is neither a float, a list    *)
(* nor a ComplexValue is reported as an error for its sensor and nothing   *)
(* more happens: read_sensors raises nothing, reads every sensor of the    *)
(* list, the later ones included, and leaves the list as it is.            *)
(***************************************************************************)
C17_Unrecognized(entry) == entry.val.shape \notin DefinedShapes

C17_Case ==
    /\ variant \in DispatchVariants
    /\ last.op = "read_sensors"
    /\ \E i \in 1..Len(last.input) : last.input[i].shape \notin DefinedShapes

C17_ReportingOnly ==
    C17_Case =>
        /\ last.outcome # "raised"
        /\ sensors = last.pre
        /\ Len(last.result) = Len(sensors)
        /\ \A i \in 1..Len(sensors) :
              /\ last.result[i].alias = sensors[i].base.alias
              /\ last.result[i].val = last.input[i]
              /\ C17_Unrecognized(last.result[i])
                    => LinesOf(last.result[i], {"error"}) = <<Line("error", i - 1, "cannot parse")>>

\* the first of two sensors gave an unrecognized readout, the second a list,
\* which was reported element by element
C17_Witness ==
    /\ C17_Case
    /\ Len(sensors) = 2
    /\ C17_Unrecognized(last.result[1])
    /\ last.result[2].val.shape = "list"
    /\ Len(LinesOf(last.result[2], {"item"})) = 3

(***************************************************************************)
(* C18.  Each registry made by Sensors() owns its list: a registry has an  *)
(* empty list when it is made, and an add_sensor call that adds a sensor   *)
(* to one registry leaves the list of every other registry as it was.      *)
(***************************************************************************)
C18_OwnList ==
    /\ [](last.op = "Sensors" => ListOf(registries[last.self]) = <<>>)
    /\ [][(last'.op = "add_sensor" /\ last'.outcome = "added")
            => \A k \in 1..Len(registries) :
                  k # last'.self => ListOf(registries[k])' = ListOf(registries[k])]_vars

(***************************************************************************)
(* C19.  In sensors_builder_validatedjson.py an input that fails schema    *)
(* validation (sensor_type, bus_no, dev_name or the field of its kind,     *)
(* i2c_addr / cs_no / baud_rate, missing or of the wrong JSON type) is     *)
(* refused before construction: no sensor class is called, no configure    *)
(* function is called, and the list is unchanged.                           *)
(***************************************************************************)
C19_Missing(input, name) == name \notin DOMAIN input

C19_NotInteger(input, name) == name \in DOMAIN input /\ input[name] = PyStr

C19_NotString(input, name) == name \in DOMAIN input /\ input[name] = "<int>"

C19_SchemaFailure(input) ==
    \/ \E name \in {"sensor_type", "bus_no", "dev_name"} : C19_Missing(input, name)
    \/ C19_NotString(input, "sensor_type")
    \/ C19_NotString(input, "dev_name")
    \/ C19_NotInteger(input, "bus_no")
    \/ /\ InputType("vjson", input) \in Kinds
       /\ \/ C19_Missing(input, FieldName(InputType("vjson", input)))
          \/ C19_NotInteger(input, FieldName(InputType("vjson", input)))

C19_Case ==
    /\ variant = "vjson"
    /\ IsAdd
    /\ WellFormed(variant, last.input)
    /\ C19_SchemaFailure(last.input)

C19_RefusedBeforeConstruction ==
    C19_Case =>
        /\ last.outcome = "rejected"
        /\ last.constructed = 0
        /\ last.configured = <<>>
        /\ sensors = last.pre

\* a UART specification whose baud_rate is a string was refused on a registry
\* that holds a sensor
C19_Witness ==
    /\ C19_Case
    /\ InputType(variant, last.input) = "uart"
    /\ C19_NotInteger(last.input, "baud_rate")
    /\ Len(sensors) >= 1

\* an I2C specification without bus_no was refused
C19_WitnessMissing ==
    /\ C19_Case
    /\ InputType(variant, last.input) = "i2c"
    /\ C19_Missing(last.input, "bus_no")

(***************************************************************************)
(* C20.  In the JSON variants add_sensor called with a text that is not    *)
(* well-formed JSON recovers inside the call: no exception leaves          *)
(* add_sensor and the list is unchanged.                                    *)
(***************************************************************************)
C20_Case ==
    /\ variant \in JsonVariants
    /\ IsAdd
    /\ ~WellFormed(variant, last.input)

C20_MalformedRecovered ==
    C20_Case => (last.outcome # "raised" /\ sensors = last.pre)

(***************************************************************************)
(* C21.  In the JSON variants (real driver), add_sensor with a valid I2C   *)
(* specification on an empty registry succeeds: the registry then holds    *)
(* exactly one sensor, of kind i2c, with the bus number and address given; *)
(* likewise a valid SPI specification is registered.                       *)
(***************************************************************************)
C21_Case ==
    /\ IsAdd
    /\ variant \in JsonVariants
    /\ last.pre = <<>>
    /\ ValidInput(variant, last.input)
    /\ InputType(variant, last.input) \in {"i2c", "spi"}

C21_ValidBusSensorRegistered ==
    C21_Case
        => /\ last.outcome = "added"
           /\ Len(sensors) = 1
           /\ KindOf(sensors[1]) = InputType(variant, last.input)
           /\ Describes(variant, last.input, sensors[1])

(***************************************************************************)
(* C26.  The I2C validator compares addresses only, never bus numbers: an  *)
(* I2C sensor whose i2c_addr equals that of a registered I2C sensor is     *)
(* refused even on another bus, so no two registered I2C sensors share an  *)
(* address.                                                                *)
(***************************************************************************)
C26_I2cAddrs(regs) ==
    {Attr(regs[i], "i2c_addr") : i \in {j \in 1..Len(regs) : KindOf(regs[j]) = "i2c"}}

C26_Case ==
    /\ IsAdd
    /\ variant \in ValidatedVariants
    /\ WellFormed(variant, last.input)
    /\ InputType(variant, last.input) = "i2c"
    /\ InputField(variant, last.input) \in C26_I2cAddrs(last.pre)

C26_AddressGlobal ==
    /\ C26_Case => last.outcome # "added" /\ sensors = last.pre
    /\ variant \in ValidatedVariants
          => \A i, j \in 1..Len(sensors) :
                (i # j /\ KindOf(sensors[i]) = "i2c" /\ KindOf(sensors[j]) = "i2c")
                    => Attr(sensors[i], "i2c_addr") # Attr(sensors[j], "i2c_addr")

\* an address held on one bus is refused on the other
C26_Witness ==
    /\ C26_Case
    /\ last.outcome = "conflict"
    /\ \A i \in 1..Len(last.pre) :
          KindOf(last.pre[i]) = "i2c" => last.pre[i].base.bus_no # InputBus(variant, last.input)

\* two I2C sensors on different buses, with different addresses, registered
C26_WitnessTwoBuses ==
    /\ variant \in ValidatedVariants
    /\ Len(sensors) = 2
    /\ KindOf(sensors[1]) = "i2c" /\ KindOf(sensors[2]) = "i2c"
    /\ sensors[1].base.bus_no # sensors[2].base.bus_no

(***************************************************************************)
(* C27.  A get_sensor_data generator is not a snapshot of the list: a      *)
(* sensor appended after the generator was obtained and before it ended is *)
(* handed out too, after all earlier ones, so that a generator ends only   *)
(* when it has handed out a pair for every sensor then registered; once    *)
(* it has ended, it hands out nothing more, whatever is added later.       *)
(***************************************************************************)
C27_Ends(id) == gen[id].state = "open" /\ gen'[id].state = "done"

C27_Ended(id) == gen[id].state = "done" /\ gen'[id].state = "done"

C27_LiveList ==
    /\ [](\A id \in GenIds :
            \A i \in 1..Len(gen[id].yielded) :
                gen[id].yielded[i][1] = sensors[i].base.alias)
    /\ [][\A id \in GenIds :
            C27_Ends(id) => /\ Len(gen'[id].yielded) = Len(sensors')
                            /\ Len(gen'[id].yielded) >= gen[id].len0]_vars
    /\ [][\A id \in GenIds :
            (C27_Ended(id) /\ ~(last'.op = "get_sensor_data" /\ last'.input = id))
                => gen'[id] = gen[id]]_vars

\* a generator obtained over one sensor has ended after two pairs
C27_Witness ==
    \E id \in GenIds :
        /\ gen[id].state = "done"
        /\ gen[id].len0 = 1
        /\ Len(gen[id].yielded) = 2
        /\ Len(sensors) = 2

\* next() on a generator that ended before the second sensor was added
C27_WitnessExhausted ==
    /\ last.op = "next" /\ last.exc = "StopIteration"
    /\ gen[last.input].state = "done"
    /\ Len(gen[last.input].yielded) = 1
    /\ Len(sensors) = 2

(***************************************************************************)
(* C28.  In sensors_builder.py configuration precedes validation: an       *)
(* add_sensor call for an in-range I2C or SPI sensor has called the        *)
(* driver's configure function, with the sensor's bus number and address   *)
(* or chip-select, whatever the call's outcome; so a sensor refused as a   *)
(* duplicate has been configured, and the list is as it was.               *)
(***************************************************************************)
C28_Case ==
    /\ IsAdd
    /\ variant = "builder"
    /\ ValidInput(variant, last.input)
    /\ InputType(variant, last.input) \in {"i2c", "spi"}

C28_ConfigureCall ==
    << IF InputType(variant, last.input) = "i2c"
       THEN "configure_i2c_sensor" ELSE "configure_spi_sensor",
       InputBus(variant, last.input), InputField(variant, last.input) >>

C28_ConfiguredBeforeValidation ==
    C28_Case
        => /\ last.configured = <<C28_ConfigureCall>>
           /\ last.outcome = "conflict" => sensors = last.pre

\* a duplicate I2C address was refused after the device was configured
C28_Witness ==
    /\ C28_Case
    /\ last.outcome = "conflict"
    /\ last.configured = <<C28_ConfigureCall>>
    /\ Len(sensors) = 1
    /\ sensors = last.pre

(***************************************************************************)
(* C23.  In sensors_builder.py and the builder-pattern variants, the       *)
(* driver's configure function is called exactly once for each I2C or SPI  *)
(* sensor constructed, with that sensor's bus number and its address or    *)
(* chip-select as arguments, and not at all for a UART sensor.             *)
(***************************************************************************)
C23_Variants == {"builder"} \cup BuilderPatternVariants

C23_Case ==
    /\ IsAdd
    /\ variant \in C23_Variants
    /\ ValidInput(variant, last.input)
    /\ last.constructed = 1

C23_Expected ==
    CASE InputType(variant, last.input) = "i2c" ->
            << <<"configure_i2c_sensor", InputBus(variant, last.input),
                 InputField(variant, last.input)>> >>
      [] InputType(variant, last.input) = "spi" ->
            << <<"configure_spi_sensor", InputBus(variant, last.input),
                 InputField(variant, last.input)>> >>
      [] OTHER -> <<>>

C23_ConfiguredOnceWithOwnKey == C23_Case => last.configured = C23_Expected

(***************************************************************************)
(* C24.  Alias uniqueness is not enforced: add_sensor accepts a valid      *)
(* sensor whose alias is that of a registered sensor whenever its bus      *)
(* resource key collides with no registered sensor's, and the registry     *)
(* then holds two sensors with one alias.                                   *)
(***************************************************************************)
C24_Case ==
    /\ IsAdd
    /\ ValidInput(variant, last.input)
    /\ NonConflicting(variant, last.input, last.pre)
    /\ \E i \in 1..Len(last.pre) : last.pre[i].base.alias = InputAlias(variant, last.input)

C24_DuplicateAliasAccepted ==
    C24_Case
        => /\ last.outcome = "added"
           /\ Len(sensors) = Len(last.pre) + 1
           /\ IsPrefix(last.pre, sensors)
           /\ sensors[Len(sensors)].base.alias = InputAlias(variant, last.input)

\* two registered sensors share one alias
C24_SharedAlias ==
    /\ IsAdd /\ last.outcome = "added"
    /\ Len(sensors) = 2
    /\ sensors[1].base.alias = sensors[2].base.alias

(***************************************************************************)
(* C22.  A sensor added without a device name or without an alias (the     *)
(* value absent, None or empty) is registered with dev_name "none",        *)
(* respectively alias "none"; a sensor added with a non-empty dev_name and *)
(* alias is registered with exactly those values.                          *)
(***************************************************************************)
C22_Given(v, input, name) ==
    IF v \in JsonVariants THEN Prop(input, name, "<None>")
    ELSE IF name = "dev_name" THEN input[4] ELSE input[5]

C22_Registered(given) == IF given \in {"", "<None>"} THEN "none" ELSE given

C22_Case == IsAdd /\ last.outcome = "added"

C22_NamesDefaulted ==
    C22_Case
        => \A name \in {"dev_name", "alias"} :
              sensors[Len(sensors)].base[name]
                  = C22_Registered(C22_Given(variant, last.input, name))

(***************************************************************************)
(* C29.  In the JSON variants, every registered sensor is filed under      *)
(* (base.type_name) the kind of its sensor class, which is the sensor_type *)
(* tag it was added with, and reads through the read function of that      *)
(* class: no property of the JSON input changes its kind or its read       *)
(* function.                                                               *)
(***************************************************************************)
C29_ReadOf(cls) ==
    CASE cls = "i2c"  -> "get_i2c_val"
      [] cls = "spi"  -> "get_spi_val"
      [] cls = "uart" -> "get_uart_val"

C29_KindFixed ==
    variant \in JsonVariants
        => /\ \A i \in 1..Len(sensors) :
                /\ KindOf(sensors[i]) = sensors[i].cls
                /\ sensors[i].base.read = C29_ReadOf(sensors[i].cls)
           /\ (IsAdd /\ last.outcome = "added")
                => sensors[Len(sensors)].cls = InputType(variant, last.input)

\* the same, for the kind alone
C29_KindOfClass ==
    variant \in JsonVariants
        => \A i \in 1..Len(sensors) : KindOf(sensors[i]) = sensors[i].cls

\* the same, for the read function alone
C29_ReadOfClass ==
    variant \in JsonVariants
        => \A i \in 1..Len(sensors) : sensors[i].base.read = C29_ReadOf(sensors[i].cls)

\* two UART sensors on one port are registered
C29_TwoOnOnePort ==
    /\ variant \in JsonVariants
    /\ Len(sensors) = 2
    /\ sensors[1].cls = "uart" /\ sensors[2].cls = "uart"
    /\ sensors[1].base.bus_no = sensors[2].base.bus_no

(***************************************************************************)
(* C30.  Properties that neither the base nor the sensor class declares:   *)
(* in the JSON variants with_field attaches such a property (clk_speed,    *)
(* say) to the sensor object, and an add_sensor whose input carries one    *)
(* ends as it does without it, the registered sensor carrying the          *)
(* property; in sensors_consolidated.py with_field leaves the sensor as it *)
(* is.  In both, a property the base object has is set on the base only,   *)
(* the sensor object's own attributes staying as they are.                  *)
(***************************************************************************)
C30_Value(field_name) == IF field_name \in IntFieldNames THEN ClkSpeed ELSE "<str>"

C30_WithField ==
    last.op = "with_field"
        => LET obj == last.pre[1]
               new == last.result[1]
               field_name == last.input[2]
               field_value == C30_Value(field_name) IN
           /\ field_name \in DOMAIN obj.base
                 => /\ new.base = [obj.base EXCEPT ![field_name] = field_value]
                    /\ new.dev = obj.dev
           /\ (field_name \notin DOMAIN obj.base /\ field_name \notin DOMAIN obj.dev)
                 => IF variant \in JsonVariants
                    THEN /\ new.base = obj.base
                         /\ new.dev = (field_name :> field_value) @@ obj.dev
                    ELSE new = obj

C30_AddCase ==
    /\ IsAdd
    /\ variant \in JsonVariants
    /\ WellFormed(variant, last.input)
    /\ "clk_speed" \in DOMAIN last.input

C30_Add ==
    C30_AddCase
        => LET plain == Without(last.input, "clk_speed")
               sensor == sensors[Len(sensors)] IN
           /\ last.outcome = add_sensor(variant, last.pre, plain).outcome
           /\ (/\ ValidInput(variant, last.input)
               /\ InputType(variant, last.input) = "uart"
               /\ NonConflicting(variant, last.input, last.pre))
                 => last.outcome = "added"
           /\ last.outcome = "added"
                 => /\ Attr(sensor, "clk_speed") = last.input["clk_speed"]
                    /\ "clk_speed" \notin DOMAIN sensor.base
                    /\ Describes(variant, last.input, sensor)

C30_WitnessConsolidated ==
    /\ last.op = "with_field"
    /\ variant = "consolidated"
    /\ last.input[2] = "clk_speed"
    /\ last.result = last.pre

\* with_field was given bus_no for a UART sensor, which has its own bus_no
C30_WitnessBaseOnly ==
    /\ last.op = "with_field"
    /\ last.input = <<"uart", "bus_no">>
    /\ last.result[1].base.bus_no = ClkSpeed
    /\ Attr(last.result[1], "bus_no") = PyNone

(***************************************************************************)
(* C25.  Validation-then-insert is atomic with respect to other add_sensor *)
(* calls on the same registry: of two concurrent add_sensor calls with the *)
(* same kind and the same bus resource key, never both pass validation and *)
(* both are appended: the list never holds two sensors of one kind with    *)
(* one key.                                                                *)
(***************************************************************************)
C25_SameKey(s1, s2) == KindOf(s1) = KindOf(s2) /\ KeyOf(s1) = KeyOf(s2)

C25_BothAppended ==
    \E i, j \in 1..Len(sensors) : i # j /\ C25_SameKey(sensors[i], sensors[j])

\* two calls in progress have passed validation for one key
C25_BothValidated ==
    /\ variant \in ValidatedVariants
    /\ \E t, u \in Pending : t # u /\ C25_SameKey(threads[t].sensor, threads[u].sensor)

C25_AtomicValidateInsert ==
    variant \in ValidatedVariants => ~C25_BothAppended

====
